---- MODULE Spec2Model ----
(***************************************************************************)
(* Model of the two MCP tools of perplexity-mcp-poke: search_perplexity    *)
(* and fetch_webpage_content, as written in src/src/server.py and in       *)
(* src/archive/server.py.                                                  *)
(*                                                                         *)
(* A text is a sequence of one-character strings.  An optional value is a  *)
(* sequence of length 0 (None) or 1 (Some).  A parsed HTML document is the *)
(* sequence of the top-level nodes of the BeautifulSoup tree.              *)
(***************************************************************************)
EXTENDS Integers, Sequences, FiniteSets, TLC

None == <<>>
Some(x) == <<x>>

Min(a, b) == IF a <= b THEN a ELSE b
Max(a, b) == IF a >= b THEN a ELSE b

(***************************************************************************)
(* Python string operations used by the extractor.                         *)
(***************************************************************************)
\* The whitespace characters str.strip() and str.split() act on (those the
\* documents of the model use).
Whitespace == {" ", "\n", "\t"}

RECURSIVE lstrip(_)
lstrip(s) ==
    IF s = <<>> \/ s[1] \notin Whitespace THEN s ELSE lstrip(SubSeq(s, 2, Len(s)))

RECURSIVE rstrip(_)
rstrip(s) ==
    IF s = <<>> \/ s[Len(s)] \notin Whitespace THEN s
    ELSE rstrip(SubSeq(s, 1, Len(s) - 1))

\* str.strip()
strip(s) == rstrip(lstrip(s))

\* The end of the word that starts a text whose first character is no
\* whitespace: the index of its first whitespace, or one past the text.
WordEnd(t) ==
    CHOOSE i \in 1..(Len(t) + 1) :
        /\ (i = Len(t) + 1 \/ t[i] \in Whitespace)
        /\ \A j \in 1..(i - 1) : t[j] \notin Whitespace

\* str.split(): the maximal runs of non-whitespace, in order.
RECURSIVE split(_)
split(s) ==
    LET t == lstrip(s) IN
    IF t = <<>> THEN <<>>
    ELSE LET e == WordEnd(t) IN
         <<SubSeq(t, 1, e - 1)>> \o split(SubSeq(t, e, Len(t)))

\* sep.join(parts)
RECURSIVE join(_, _)
join(sep, parts) ==
    IF parts = <<>> THEN <<>>
    ELSE IF Len(parts) = 1 THEN parts[1]
    ELSE parts[1] \o sep \o join(sep, Tail(parts))

\* A slice that keeps one character too many.
SliceInclusive(text, cap) == SubSeq(text, 1, Min(cap + 1, Len(text)))

\* text[:cap]
Slice(text, cap) == SubSeq(text, 1, Min(cap, Len(text)))

(***************************************************************************)
(* The parsed document tree.                                               *)
(***************************************************************************)
TextNode(t) == [tag |-> "#text", text |-> t]

Element(tag, attrs, kids) ==
    [tag |-> tag, class |-> attrs.class, id |-> attrs.id, role |-> attrs.role,
     itemprop |-> attrs.itemprop, kids |-> kids]

IsText(n) == n.tag = "#text"

\* soup([...]) of the cleaning step: the tags whose elements are removed.
NonContentTags == {"script", "style", "nav", "header", "footer", "aside", "iframe"}

\* element.decompose() for every element with one of the tags, at any depth.
RECURSIVE Decompose(_, _)
Decompose(nodes, tags) ==
    IF nodes = <<>> THEN <<>>
    ELSE LET n == Head(nodes)
             rest == Decompose(Tail(nodes), tags) IN
         IF IsText(n) THEN <<n>> \o rest
         ELSE IF n.tag \in tags THEN rest
         ELSE <<[n EXCEPT !.kids = Decompose(n.kids, tags)]>> \o rest

\* The elements of a tree in document order (a node before its descendants).
RECURSIVE Descendants(_)
Descendants(nodes) ==
    IF nodes = <<>> THEN <<>>
    ELSE LET n == Head(nodes) IN
         IF IsText(n) THEN Descendants(Tail(nodes))
         ELSE <<n>> \o Descendants(n.kids) \o Descendants(Tail(nodes))

\* The strings of a tree in document order.
RECURSIVE Strings(_)
Strings(nodes) ==
    IF nodes = <<>> THEN <<>>
    ELSE LET n == Head(nodes) IN
         IF IsText(n) THEN <<n.text>> \o Strings(Tail(nodes))
         ELSE Strings(n.kids) \o Strings(Tail(nodes))

\* get_text(separator=' ', strip=True): every string stripped, the empty ones
\* dropped, the rest joined by the separator.
get_text(nodes) ==
    LET all == Strings(nodes)
        stripped == [i \in 1..Len(all) |-> strip(all[i])] IN
    join(<<" ">>, SelectSeq(stripped, LAMBDA t : t # <<>>))

TagSel(t) == [kind |-> "tag", name |-> "", val |-> t]
ClassSel(c) == [kind |-> "class", name |-> "class", val |-> c]
IdSel(i) == [kind |-> "id", name |-> "id", val |-> i]
AttrSel(a, v) == [kind |-> "attr", name |-> a, val |-> v]

\* The priority list of content selectors.
selectors ==
    << TagSel("main"), TagSel("article"), AttrSel("role", "main"),
       ClassSel("content"), IdSel("content"), ClassSel("main-content"),
       IdSel("main-content"),
       ClassSel("post-content"), ClassSel("entry-content"),
       ClassSel("article-content"),
       ClassSel("page-content"), IdSel("page-content"), ClassSel("post-body"),
       ClassSel("article-body"),
       ClassSel("content-area"), ClassSel("site-content"), IdSel("site-content"),
       ClassSel("blog-post"), ClassSel("single-post"), ClassSel("post"),
       IdSel("post"),
       AttrSel("itemprop", "articleBody"), ClassSel("markdown-body") >>

\* Whether an element matches a CSS selector of the list.
Matches(n, sel) ==
    CASE sel.kind = "tag" -> n.tag = sel.val
      [] sel.kind = "class" -> sel.val \in n.class
      [] sel.kind = "id" -> n.id = sel.val
      [] sel.kind = "attr" -> n[sel.name] = sel.val

\* soup.select_one(selector): the first matching element in document order.
select_one(soup, sel) ==
    LET found == SelectSeq(Descendants(soup), LAMBDA n : Matches(n, sel)) IN
    IF found = <<>> THEN None ELSE Some(found[1])

\* The loop over the selectors: main_content after the loop, None when no
\* selector matched, else the text of the first match of the first selector
\* that matches.
RECURSIVE SelectorLoop(_, _)
SelectorLoop(soup, i) ==
    IF i > Len(selectors) THEN None
    ELSE LET content_area == select_one(soup, selectors[i]) IN
         IF content_area # None
         THEN Some(get_text(<<content_area[1]>>))
         ELSE SelectorLoop(soup, i + 1)

\* if not main_content: None and the empty string are both falsy.
Falsy(main_content) == main_content = None \/ main_content[1] = <<>>

\* The extraction without the whole-document fallback.
MainContentNoFallback(doc) ==
    LET main_content == SelectorLoop(Decompose(doc, NonContentTags), 1) IN
    IF main_content = None THEN <<>> ELSE main_content[1]

\* main_content before the whitespace clean-up.
MainContent(doc) ==
    LET soup == Decompose(doc, NonContentTags)
        main_content == SelectorLoop(soup, 1) IN
    IF Falsy(main_content) THEN get_text(soup) ELSE main_content[1]

\* ' '.join(main_content.split())
CleanWhitespace(text) == join(<<" ">>, split(text))

\* The extraction of src/src/server.py (both tools) and of the search tool
\* of src/archive/server.py, before the cap.
ExtractText(doc) == CleanWhitespace(MainContent(doc))

(***************************************************************************)
(* Exceptions and HTTP outcomes.                                           *)
(***************************************************************************)
Exc(cls, msg) == [cls |-> cls, msg |-> msg]

\* The classes derived from requests.exceptions.RequestException.
RequestExceptionClasses ==
    {"ConnectionError", "HTTPError", "Timeout", "MissingSchema",
     "requests.JSONDecodeError"}

\* except requests.exceptions.RequestException (the handler of both tools)
OuterCatches(e) == e.cls \in RequestExceptionClasses

\* An inner handler as narrow as the outer one.
InnerCatchesRequestOnly(e) == e.cls \in RequestExceptionClasses

\* except Exception (the handler around one result's fetch and extraction)
InnerCatches(e) == TRUE

Raised(e) == [raised |-> Some(e)]
Returned(r) == [raised |-> None, response |-> r]

\* A status check that lets the 4xx statuses through.
raise_for_status_5xx(r) ==
    IF r.status_code >= 500 /\ r.status_code < 600
    THEN Some(Exc("HTTPError", "Server Error"))
    ELSE None

\* response.raise_for_status(): HTTPError for a 4xx or 5xx status.
raise_for_status(r) ==
    IF r.status_code >= 400 /\ r.status_code < 500
    THEN Some(Exc("HTTPError", "Client Error"))
    ELSE IF r.status_code >= 500 /\ r.status_code < 600
    THEN Some(Exc("HTTPError", "Server Error"))
    ELSE None

\* The request and the status check of one requests.get / requests.post:
\* the exception the two lines raise, if any.
CallFailure(out) ==
    IF out.raised # None THEN out.raised ELSE raise_for_status(out.response)

(***************************************************************************)
(* search_perplexity                                                       *)
(***************************************************************************)
MinResults == 1
MaxResultsLimit == 20
MaxDomains == 20
SearchCap == 2000
FetchCap == 5000

\* A clamp that forgets the lower limit.
ClampUpperOnly(max_results) == Min(max_results, MaxResultsLimit)

\* min(max(max_results, 1), 20)
ClampResults(max_results) == Min(Max(max_results, MinResults), MaxResultsLimit)

\* A url test that takes the empty string for a url.
TruthyNotNone(url) == url # None

\* if url: / if country: None and the empty string are falsy.
Truthy(url) == url # None /\ url[1] # ""

\* The JSON body of the search request: country and search_domain_filter
\* (its first 20 entries) are added when given and not empty.
Payload(query, max_results, max_tokens_per_page, country, search_domain_filter) ==
    LET base == [query |-> query, max_results |-> ClampResults(max_results),
                 max_tokens_per_page |-> max_tokens_per_page]
        located == IF Truthy(country) THEN base @@ [country |-> country[1]] ELSE base
    IN IF search_domain_filter # None /\ search_domain_filter[1] # <<>>
       THEN located @@ [search_domain_filter |-> Slice(search_domain_filter[1], MaxDomains)]
       ELSE located

\* data = response.json(); results = data.get("results", []), followed by the
\* start of the for loop: the list iterated, or the exception raised.
\* jsonIsRequestException: whether the installed requests raises its own
\* JSONDecodeError (a RequestException) or the json module's ValueError.
ParseResults(body, jsonIsRequestException) ==
    CASE body.kind = "object" -> [raised |-> None, results |-> body.results]
      [] body.kind = "object_no_results" -> [raised |-> None, results |-> <<>>]
      [] body.kind = "object_null_results" ->
            Raised(Exc("TypeError", "'NoneType' object is not iterable"))
      [] body.kind = "array" ->
            Raised(Exc("AttributeError", "'list' object has no attribute 'get'"))
      [] body.kind = "not_json" ->
            IF jsonIsRequestException
            THEN Raised(Exc("requests.JSONDecodeError", "Expecting value"))
            ELSE Raised(Exc("json.JSONDecodeError", "Expecting value"))

\* The entry built for a result before its page is fetched.
NewEntry(result) ==
    [title |-> result.title, url |-> result.url, snippet |-> result.snippet,
     date |-> result.date, content |-> None,
     content_extraction_status |-> <<"not_attempted">>]

\* f"error: {str(fetch_error)}"
ErrorStatus(e) == <<"error: ", e.msg>>

\* The body of the inner try for one result, given the outcome of its GET:
\* the entry as it is appended.  Reached only for exceptions the inner
\* handler catches.
FetchedEntry(result, out) ==
    LET failure == CallFailure(out) IN
    IF failure # None
    THEN [NewEntry(result) EXCEPT !.content_extraction_status = ErrorStatus(failure[1])]
    ELSE [NewEntry(result) EXCEPT
            !.content = Some(Slice(ExtractText(out.response.text), SearchCap)),
            !.content_extraction_status = <<"success">>]

\* Entries collected in reverse.
PrependResult(enhanced, entry) == <<entry>> \o enhanced

\* enhanced_results.append(enhanced_result)
AppendResult(enhanced, entry) == Append(enhanced, entry)

\* The loop from result i up to the next result whose page must be fetched
\* (or the end of the list): results without a url are appended untouched.
RECURSIVE Advance(_, _, _)
Advance(res, enhanced, i) ==
    IF i > Len(res) \/ Truthy(res[i].url) THEN [enhanced |-> enhanced, i |-> i]
    ELSE Advance(res, AppendResult(enhanced, NewEntry(res[i])), i + 1)

SearchSuccess(q, enhanced) ==
    [status |-> "success", query |-> q, results |-> enhanced,
     total_results |-> Len(enhanced)]

SearchError(q, e) == [status |-> "error", query |-> q, error |-> e.msg]

(***************************************************************************)
(* fetch_webpage_content                                                   *)
(***************************************************************************)
\* soup.get_text() of src/archive/server.py: the strings concatenated, with
\* no element removed, no separator and no stripping.  Whether the strings
\* of script and style elements count as text depends on the installed
\* BeautifulSoup (scriptStrings).
ArchiveText(doc, scriptStrings) ==
    LET soup == IF scriptStrings THEN doc ELSE Decompose(doc, {"script", "style"})
    IN join(<<>>, Strings(soup))

\* main_content of fetch_webpage_content in each server file.
FetchMainContent(srv, doc, scriptStrings) ==
    IF srv = "archive" THEN ArchiveText(doc, scriptStrings) ELSE ExtractText(doc)

FetchSuccess(u, main_content, r) ==
    [status |-> "success", url |-> u, content |-> Slice(main_content, FetchCap),
     content_length |-> Len(main_content), status_code |-> r.status_code]

FetchError(u, e) == [status |-> "error", url |-> u, error |-> e.msg]

(***************************************************************************)
(* Inputs: documents, API answers, arguments.                              *)
(***************************************************************************)
MaxApiResults == 3
RequestedBelow == 2
RequestedAbove == 2
LongLen == 5001
DefaultMaxResults == 5
DefaultMaxTokens == 1024

SeqsUpTo(S, n) == UNION {[1..k -> S] : k \in 0..n}

NoAttrs == [class |-> {}, id |-> "", role |-> "", itemprop |-> ""]

\* A text longer than both caps.
LongText == [i \in 1..LongLen |-> "x"]

Texts ==
    { <<"a">>, <<" ", "b", "\n", "\t", "c", " ">>, <<" ", "\n">>, LongText }

Leaves == {TextNode(t) : t \in Texts}

\* Elements nested in a top-level element.
InnerElements ==
    {Element(t, NoAttrs, <<TextNode(<<"s">>)>>) : t \in NonContentTags \cup {"p", "article"}}
    \cup {Element("article", NoAttrs, <<>>)}

Children ==
    {<<>>} \cup {<<n>> : n \in Leaves \cup InnerElements}
    \cup {<<e, TextNode(<<"a">>)>> : e \in InnerElements}

\* Tag and attributes of the top-level elements.
TopShapes ==
    { <<"main", NoAttrs>>, <<"article", NoAttrs>>, <<"div", NoAttrs>>,
      <<"div", [NoAttrs EXCEPT !.role = "main"]>>,
      <<"div", [NoAttrs EXCEPT !.class = {"content", "wide"}]>>,
      <<"div", [NoAttrs EXCEPT !.id = "post"]>>,
      <<"div", [NoAttrs EXCEPT !.class = {"markdown-body"}]>>,
      <<"nav", NoAttrs>>, <<"script", NoAttrs>> }

TopNodes == Leaves \cup {Element(sh[1], sh[2], k) : sh \in TopShapes, k \in Children}

\* The second top-level node of the two-node documents.
Siblings ==
    { TextNode(<<"t">>),
      Element("main", NoAttrs, <<TextNode(<<"m">>)>>),
      Element("main", NoAttrs, <<>>),
      Element("div", [NoAttrs EXCEPT !.class = {"content"}], <<TextNode(<<"d">>)>>),
      Element("script", NoAttrs, <<TextNode(<<"j">>)>>),
      Element("footer", NoAttrs, <<TextNode(<<"f">>)>>) }

\* The documents of the single-page specification.
Docs ==
    {<<>>} \cup {<<n>> : n \in TopNodes}
    \cup {<<n, m>> : n \in TopNodes, m \in Siblings}
    \cup {<<m, n>> : n \in TopNodes, m \in Siblings}

\* The documents of the orchestration specification.
SampleDocs ==
    { <<>>,
      <<TextNode(<<"a">>)>>,
      <<Element("script", NoAttrs, <<TextNode(<<"s">>)>>),
        Element("main", NoAttrs, <<TextNode(<<" ", "b", "\n", "\t", "c", " ">>)>>)>>,
      <<Element("article", NoAttrs, <<>>), TextNode(<<"t">>)>> }

\* What one requests.get can end with: an exception of requests.get itself
\* (OSError: raised by requests, and no RequestException, when the CA bundle
\* configured for TLS verification is not found), or a response.
GetOutcomes(docs) ==
    { Raised(Exc("ConnectionError", "connection refused")),
      Raised(Exc("Timeout", "read timed out")),
      Raised(Exc("OSError", "Could not find a suitable TLS CA certificate bundle")) }
    \cup {Returned([status_code |-> 404, text |-> <<>>])}
    \cup {Returned([status_code |-> 200, text |-> d]) : d \in docs}

Urls == {None, Some(""), Some("u1"), Some("u2")}

Items == {[title |-> Some("T"), url |-> u, snippet |-> None, date |-> None] : u \in Urls}

Bodies(maxN) ==
    {[kind |-> "object", results |-> r] : r \in SeqsUpTo(Items, maxN)}
    \cup {[kind |-> k] :
            k \in {"object_no_results", "object_null_results", "array", "not_json"}}

\* What the requests.post to the search API can end with.
PostOutcomes(maxN) ==
    { Raised(Exc("ConnectionError", "connection refused")),
      Raised(Exc("OSError", "Could not find a suitable TLS CA certificate bundle")) }
    \cup {Returned([status_code |-> c, body |-> [kind |-> "not_json"]]) : c \in {401, 500}}
    \cup {Returned([status_code |-> 200, body |-> b]) : b \in Bodies(maxN)}

\* The installed requests decides the class of a JSON decoding error; it
\* matters only to a body that is no JSON.
JsonErrorClasses(out) ==
    IF out.raised = None /\ out.response.body.kind = "not_json" THEN BOOLEAN ELSE {TRUE}

Queries == {"q1", "q2"}

Requested ==
    ((MinResults - RequestedBelow)..(MaxResultsLimit + RequestedAbove)) \cup {50}

Countries == {None, Some(""), Some("US")}

\* No filter, an empty one, one domain, one domain more than the API takes.
DomainFilters ==
    {None, Some(<<>>), Some(<<"a.com">>), Some([i \in 1..(MaxDomains + 1) |-> "a.com"])}

Servers == {"src", "archive"}

(***************************************************************************)
(* The state of one server handling one invocation at a time.              *)
(***************************************************************************)
VARIABLES
    pc,                \* "idle", "post", "get", "returned", "raised"
    server,            \* the server file that runs the invocation
    tool,              \* the tool invoked
    args,              \* its arguments still to be read
    payload,           \* the JSON body of the POST in flight
    postOutcome,       \* what the POST ended with
    results,           \* the API's result list
    enhanced_results,  \* the entries appended so far
    cur,               \* the index of the result whose page is being fetched
    inflight,          \* the HTTP requests sent and not yet answered
    issued,            \* the GETs sent, in order: result indices (0: fetch tool)
    responses,         \* what each GET ended with: [i, out]
    envelope,          \* the dict returned
    exception          \* the exception that left the tool

vars == <<pc, server, tool, args, payload, postOutcome, results, enhanced_results,
          cur, inflight, issued, responses, envelope, exception>>

Init ==
    /\ pc = "idle"
    /\ server = "src"
    /\ tool = "none"
    /\ args = [query |-> ""]
    /\ payload = None
    /\ postOutcome = None
    /\ results = <<>>
    /\ enhanced_results = <<>>
    /\ cur = 0
    /\ inflight = {}
    /\ issued = <<>>
    /\ responses = <<>>
    /\ envelope = None
    /\ exception = None

\* An exception reaches the handler of the tool: the error envelope for a
\* RequestException; any other exception leaves the tool.
OuterHandler(e, errorEnvelope) ==
    IF OuterCatches(e)
    THEN /\ pc' = "returned"
         /\ envelope' = Some(errorEnvelope)
         /\ exception' = None
    ELSE /\ pc' = "raised"
         /\ envelope' = None
         /\ exception' = Some(e)

\* The for loop resumes at result i with the entries appended so far: it runs
\* to the next requests.get, or to the return of the success envelope.
ResumeLoop(res, enhanced, i, done) ==
    LET adv == Advance(res, enhanced, i) IN
    /\ enhanced_results' = adv.enhanced
    /\ IF adv.i > Len(res)
       THEN /\ pc' = "returned"
            /\ envelope' = Some(SearchSuccess(args.query, adv.enhanced))
            /\ cur' = 0
            /\ inflight' = inflight \ {done}
            /\ issued' = issued
       ELSE /\ pc' = "get"
            /\ envelope' = None
            /\ cur' = adv.i
            /\ inflight' = (inflight \ {done}) \cup {<<"GET", adv.i>>}
            /\ issued' = Append(issued, adv.i)
    /\ exception' = None

InvokeSearch(srv, q, m, country, search_domain_filter) ==
    /\ pc = "idle"
    /\ pc' = "post"
    /\ server' = srv
    /\ tool' = "search_perplexity"
    /\ args' = [query |-> q, max_results |-> m]
    /\ payload' = Some(Payload(q, m, DefaultMaxTokens, country, search_domain_filter))
    /\ inflight' = {<<"POST", 0>>}
    /\ UNCHANGED <<postOutcome, results, enhanced_results, cur, issued, responses,
                   envelope, exception>>

\* requests.post returns or raises; the handler runs on to its next request
\* or to its end.  max_results and payload are not read after the POST.
PostReturn(out, jsonIsRequestException) ==
    /\ pc = "post"
    /\ postOutcome' = Some(out)
    /\ payload' = None
    /\ args' = [query |-> args.query]
    /\ LET failure == CallFailure(out)
           parsed == IF failure # None THEN Raised(failure[1])
                     ELSE ParseResults(out.response.body, jsonIsRequestException)
       IN IF parsed.raised # None
          THEN /\ OuterHandler(parsed.raised[1], SearchError(args.query, parsed.raised[1]))
               /\ inflight' = inflight \ {<<"POST", 0>>}
               /\ UNCHANGED <<results, enhanced_results, cur, issued>>
          ELSE /\ results' = parsed.results
               /\ ResumeLoop(parsed.results, <<>>, 1, <<"POST", 0>>)
    /\ UNCHANGED <<server, tool, responses>>

\* The requests.get of result cur returns or raises.
PageReturn(out) ==
    /\ pc = "get"
    /\ tool = "search_perplexity"
    /\ responses' = Append(responses, [i |-> cur, out |-> out])
    /\ LET failure == CallFailure(out) IN
       IF failure # None /\ ~InnerCatches(failure[1])
       THEN /\ OuterHandler(failure[1], SearchError(args.query, failure[1]))
            /\ inflight' = inflight \ {<<"GET", cur>>}
            /\ UNCHANGED <<enhanced_results, cur, issued>>
       ELSE ResumeLoop(results,
                       AppendResult(enhanced_results, FetchedEntry(results[cur], out)),
                       cur + 1, <<"GET", cur>>)
    /\ UNCHANGED <<server, tool, args, payload, postOutcome, results>>

InvokeFetch(srv, u) ==
    /\ pc = "idle"
    /\ pc' = "get"
    /\ server' = srv
    /\ tool' = "fetch_webpage_content"
    /\ args' = [url |-> u]
    /\ inflight' = {<<"GET", 0>>}
    /\ issued' = <<0>>
    /\ UNCHANGED <<payload, postOutcome, results, enhanced_results, cur, responses,
                   envelope, exception>>

\* The requests.get of fetch_webpage_content returns or raises.
FetchReturn(out, scriptStrings) ==
    /\ pc = "get"
    /\ tool = "fetch_webpage_content"
    /\ responses' = Append(responses, [i |-> 0, out |-> out])
    /\ inflight' = inflight \ {<<"GET", 0>>}
    /\ LET failure == CallFailure(out) IN
       IF failure # None
       THEN OuterHandler(failure[1], FetchError(args.url, failure[1]))
       ELSE /\ pc' = "returned"
            /\ envelope' =
                 Some(FetchSuccess(args.url,
                        FetchMainContent(server, out.response.text, scriptStrings),
                        out.response))
            /\ exception' = None
    /\ UNCHANGED <<server, tool, args, payload, postOutcome, results,
                   enhanced_results, cur, issued>>

\* The envelope (or the exception) goes to the caller; nothing is kept.
Deliver ==
    /\ pc \in {"returned", "raised"}
    /\ pc' = "idle"
    /\ server' = "src"
    /\ tool' = "none"
    /\ args' = [query |-> ""]
    /\ payload' = None
    /\ postOutcome' = None
    /\ results' = <<>>
    /\ enhanced_results' = <<>>
    /\ cur' = 0
    /\ inflight' = {}
    /\ issued' = <<>>
    /\ responses' = <<>>
    /\ envelope' = None
    /\ exception' = None

\* Orchestration: several results per search, a few documents.
Next ==
    \/ \E srv \in Servers, q \in Queries, m \in Requested,
          c \in Countries, f \in DomainFilters : InvokeSearch(srv, q, m, c, f)
    \/ \E out \in PostOutcomes(MaxApiResults) :
          \E j \in JsonErrorClasses(out) : PostReturn(out, j)
    \/ \E out \in GetOutcomes(SampleDocs) : PageReturn(out)
    \/ \E srv \in Servers : InvokeFetch(srv, "u1")
    \/ \E out \in GetOutcomes(SampleDocs), b \in BOOLEAN : FetchReturn(out, b)
    \/ Deliver

Spec == Init /\ [][Next]_vars

\* Single page: at most one result per search, many documents.
PageNext ==
    \/ \E srv \in Servers : InvokeSearch(srv, "q1", DefaultMaxResults, None, None)
    \/ \E out \in PostOutcomes(1) : \E j \in JsonErrorClasses(out) : PostReturn(out, j)
    \/ \E out \in GetOutcomes(Docs) : PageReturn(out)
    \/ \E srv \in Servers : InvokeFetch(srv, "u1")
    \/ \E out \in GetOutcomes(Docs), b \in BOOLEAN : FetchReturn(out, b)
    \/ Deliver

PageSpec == Init /\ [][PageNext]_vars
(***************************************************************************)
(* What the claims speak of, stated apart from the tools' code.            *)
(***************************************************************************)
Searching == tool = "search_perplexity"
Fetching == tool = "fetch_webpage_content"

\* A request that came back with a 2xx response.
GetOk(out) ==
    out.raised = None /\ out.response.status_code >= 200 /\ out.response.status_code < 300

\* The message of the exception a failed request ends with.
FailureMessage(out) ==
    IF out.raised # None THEN out.raised[1].msg
    ELSE IF out.response.status_code < 500 THEN "Client Error" ELSE "Server Error"

\* The primary call answered 2xx with a JSON object holding a result list.
PrimaryOk ==
    /\ postOutcome # None
    /\ GetOk(postOutcome[1])
    /\ postOutcome[1].response.body.kind \in {"object", "object_no_results"}

\* The primary call failed: a connection error, or a non-2xx status.
PrimaryFailed ==
    /\ postOutcome # None
    /\ \/ /\ postOutcome[1].raised # None
          /\ postOutcome[1].raised[1].cls = "ConnectionError"
       \/ /\ postOutcome[1].raised = None
          /\ ~GetOk(postOutcome[1])

HasUrl(r) == r.url \notin {None, Some("")}

IsError(st) == Len(st) = 2 /\ st[1] = "error: "

\* The responses recorded for result i.
ResponsesOf(i) == {k \in 1..Len(responses) : responses[k].i = i}

FailedFetches == {k \in 1..Len(responses) : ~GetOk(responses[k].out)}

\* The status entry i must carry, from result i and its own fetch alone.
ExpectedStatus(i) ==
    IF ~HasUrl(results[i]) THEN <<"not_attempted">>
    ELSE LET out == responses[CHOOSE k \in ResponsesOf(i) : TRUE].out IN
         IF GetOk(out) THEN <<"success">> ELSE <<"error: ", FailureMessage(out)>>

\* The strings of a tree that lie in no non-content element.
RECURSIVE VisibleStrings(_)
VisibleStrings(nodes) ==
    IF nodes = <<>> THEN <<>>
    ELSE LET n == Head(nodes) IN
         IF IsText(n) THEN <<n.text>> \o VisibleStrings(Tail(nodes))
         ELSE IF n.tag \in {"script", "style", "nav", "header", "footer", "aside", "iframe"}
         THEN VisibleStrings(Tail(nodes))
         ELSE VisibleStrings(n.kids) \o VisibleStrings(Tail(nodes))

\* The elements of a tree that lie in no non-content element, in document order.
RECURSIVE VisibleElements(_)
VisibleElements(nodes) ==
    IF nodes = <<>> THEN <<>>
    ELSE LET n == Head(nodes) IN
         IF IsText(n) THEN VisibleElements(Tail(nodes))
         ELSE IF n.tag \in {"script", "style", "nav", "header", "footer", "aside", "iframe"}
         THEN VisibleElements(Tail(nodes))
         ELSE <<n>> \o VisibleElements(n.kids) \o VisibleElements(Tail(nodes))

CharsOf(strings) == UNION {{strings[i][j] : j \in 1..Len(strings[i])} : i \in 1..Len(strings)}

\* The characters of a document that occur only inside non-content elements.
HiddenChars(doc) == CharsOf(Strings(doc)) \ CharsOf(VisibleStrings(doc))

\* The visible text of a tree: whitespace-collapsed and trimmed.
VisibleText(nodes) == CleanWhitespace(join(<<" ">>, VisibleStrings(nodes)))

\* The selectors, by index, that match a visible element of the document.
MatchingSelectors(doc) ==
    {i \in 1..Len(selectors) :
        \E k \in 1..Len(VisibleElements(doc)) : Matches(VisibleElements(doc)[k], selectors[i])}

\* The first visible element matching the highest-priority matching selector.
PriorityNode(doc) ==
    LET els == VisibleElements(doc)
        best == CHOOSE i \in MatchingSelectors(doc) : \A j \in MatchingSelectors(doc) : i <= j
        at == CHOOSE k \in 1..Len(els) :
                /\ Matches(els[k], selectors[best])
                /\ \A l \in 1..(k - 1) : ~Matches(els[l], selectors[best])
    IN els[at]

\* The page texts handed back for the 2xx responses recorded so far, each
\* with its document and its cap: by the search tool (per entry), and by the
\* fetch tool of the given server files (in the envelope).
Extractions(fetchServers) ==
    {[doc |-> responses[k].out.response.text,
      content |-> enhanced_results[responses[k].i].content,
      status |-> enhanced_results[responses[k].i].content_extraction_status,
      cap |-> 2000] :
        k \in {k \in 1..Len(responses) :
                 /\ Searching
                 /\ GetOk(responses[k].out)
                 /\ responses[k].i <= Len(enhanced_results)}}
    \cup
    {[doc |-> responses[k].out.response.text,
      content |-> IF pc = "returned" /\ envelope[1].status = "success"
                  THEN Some(envelope[1].content) ELSE None,
      status |-> IF pc = "returned" /\ envelope[1].status = "success"
                 THEN <<"success">> ELSE <<"error: ", "">>,
      cap |-> 5000] :
        k \in {k \in 1..Len(responses) :
                 /\ Fetching
                 /\ server \in fetchServers
                 /\ GetOk(responses[k].out)}}

(***************************************************************************)
(* The claims.                                                             *)
(***************************************************************************)

\* C1: when the primary call succeeds with N results, no exception leaves
\* the tool and the success envelope holds exactly N entries
\* (total_results = N); the status of entry i is decided by result i and by
\* the outcome of its own fetch alone ('error: <message>' when that fetch
\* failed), whatever happened to the other fetches; with N urls and exactly
\* one failed fetch, exactly one entry is 'error: ...' and N-1 are 'success'.
C1_PartialFailureIsolation ==
    PrimaryOk =>
        /\ pc # "raised"
        /\ pc = "returned" =>
             LET env == envelope[1]
                 N == Len(results) IN
             /\ env.status = "success"
             /\ Len(env.results) = N
             /\ env.total_results = N
             /\ \A i \in 1..N :
                  /\ HasUrl(results[i]) => Cardinality(ResponsesOf(i)) = 1
                  /\ env.results[i].content_extraction_status = ExpectedStatus(i)
             /\ ((\A i \in 1..N : HasUrl(results[i])) /\ Cardinality(FailedFetches) = 1) =>
                  /\ Cardinality({i \in 1..N :
                        IsError(env.results[i].content_extraction_status)}) = 1
                  /\ Cardinality({i \in 1..N :
                        env.results[i].content_extraction_status = <<"success">>}) = N - 1

\* A search returned whose three results all have urls: the fetch of the
\* first failed and the two later ones succeeded.
C1_Witness ==
    /\ PrimaryOk
    /\ pc = "returned"
    /\ Len(results) = 3
    /\ \A i \in 1..Len(results) : HasUrl(results[i])
    /\ Cardinality(FailedFetches) = 1
    /\ IsError(envelope[1].results[1].content_extraction_status)
    /\ envelope[1].results[2].content_extraction_status = <<"success">>
    /\ envelope[1].results[3].content_extraction_status = <<"success">>

\* C2: when the primary call fails (connection error or non-2xx status) the
\* tool returns the error envelope: status 'error', the original query, the
\* message of the failure, no 'results' field; and no page fetch is issued.
C2_PrimaryFailureAborts ==
    PrimaryFailed =>
        /\ pc = "returned"
        /\ envelope =
             Some([status |-> "error", query |-> args.query,
                   error |-> FailureMessage(postOutcome[1])])
        /\ "results" \notin DOMAIN envelope[1]
        /\ args.query \in Queries
        /\ issued = <<>>
        /\ responses = <<>>
        /\ inflight = {}

\* The search API answered 401 and the error envelope was returned.
C2_Witness ==
    /\ PrimaryFailed
    /\ postOutcome[1].raised = None
    /\ postOutcome[1].response.status_code = 401
    /\ pc = "returned"
    /\ envelope[1].status = "error"

\* C3: every invocation ends by returning an envelope whose status is
\* 'success' or 'error'; no exception of any kind leaves a tool.
C3_AlwaysEnvelope ==
    /\ pc # "raised"
    /\ pc = "returned" => (envelope # None /\ envelope[1].status \in {"success", "error"})

\* C4: the text handed back never exceeds the cap (2000 per search entry,
\* 5000 for a fetch), and when the whitespace-collapsed text is longer than
\* the cap, the content is exactly its first cap characters.
C4_ContentWithinCap ==
    /\ \A i \in 1..Len(enhanced_results) :
          enhanced_results[i].content # None =>
              Len(enhanced_results[i].content[1]) <= 2000
    /\ (Fetching /\ pc = "returned" /\ envelope[1].status = "success") =>
          Len(envelope[1].content) <= 5000
    /\ \A x \in Extractions({"src"}) :
          /\ x.content # None
          /\ Len(x.content[1]) <= x.cap
          /\ LET clean == CleanWhitespace(MainContent(x.doc)) IN
             Len(clean) > x.cap =>
                /\ Len(x.content[1]) = x.cap
                /\ \A j \in 1..x.cap : x.content[1][j] = clean[j]

\* A search entry cut to 2000 characters from a longer text.
C4_Witness ==
    /\ Searching
    /\ pc = "returned"
    /\ \E x \in Extractions({"src"}) :
          /\ Len(CleanWhitespace(MainContent(x.doc))) > 2000
          /\ x.content # None
          /\ Len(x.content[1]) = 2000

\* C5: the max_results sent to the search API is the requested value clamped
\* to [1, 20]: 1 for a request below 1, 20 for one above 20, else unchanged.
C5_MaxResultsClamped ==
    pc = "post" =>
        /\ payload # None
        /\ payload[1].max_results \in 1..20
        /\ payload[1].max_results =
             (IF args.max_results < 1 THEN 1
              ELSE IF args.max_results > 20 THEN 20
              ELSE args.max_results)

\* A request for 50 results in flight with 20 in its body.
C5_Witness ==
    /\ pc = "post"
    /\ args.max_results = 50
    /\ payload[1].max_results = 20

\* C6: no character that occurs only inside script, style, nav, header,
\* footer, aside or iframe elements of the fetched document appears in the
\* content handed back, on any path of either server file.
C6_NoHiddenText ==
    \A x \in Extractions(Servers) :
        x.content # None =>
            {x.content[1][j] : j \in 1..Len(x.content[1])} \cap HiddenChars(x.doc) = {}

\* C7: when a selector matches, the content is the (whitespace-collapsed,
\* capped) text of the first node matching the highest-priority matching
\* selector, for every document, also when that node holds no text.
C7_SelectorPriority ==
    \A x \in Extractions({"src"}) :
        MatchingSelectors(x.doc) # {} =>
            x.content = Some(Slice(VisibleText(<<PriorityNode(x.doc)>>), x.cap))

\* C8: a 2xx response always yields status 'success' and a non-null text;
\* when no selector matches, the content is the text of the whole document
\* without its non-content elements, whitespace-collapsed, trimmed and cut
\* to the cap.
C8_WholeDocumentFallback ==
    /\ \A x \in Extractions(Servers) : x.status = <<"success">> /\ x.content # None
    /\ \A x \in Extractions({"src"}) :
          MatchingSelectors(x.doc) = {} =>
              x.content = Some(Slice(VisibleText(x.doc), x.cap))

\* A fetch of a document no selector matches, with text, handed back.
C8_Witness ==
    /\ Fetching
    /\ server = "src"
    /\ pc = "returned"
    /\ \E x \in Extractions({"src"}) :
          /\ MatchingSelectors(x.doc) = {}
          /\ HiddenChars(x.doc) # {}
          /\ x.content # None
          /\ Len(x.content[1]) > 1

\* C9: page fetches start only after the primary call succeeded; results are
\* fetched at most once each and in the API's order; at most one request is
\* in flight, and the fetch of a result starts only when the entries of all
\* earlier results are complete; the returned list keeps the API's order.
C9_Sequential ==
    /\ (Searching /\ issued # <<>>) => PrimaryOk
    /\ Searching =>
          /\ \A k \in 1..Len(issued) :
                /\ issued[k] \in 1..Len(results)
                /\ HasUrl(results[issued[k]])
          /\ \A k \in 1..(Len(issued) - 1) : issued[k] < issued[k + 1]
    /\ Cardinality(inflight) <= 1
    /\ pc = "post" => (inflight = {<<"POST", 0>>} /\ issued = <<>>)
    /\ \A r \in inflight :
          (Searching /\ r[1] = "GET") =>
              /\ pc = "get"
              /\ issued[Len(issued)] = r[2]
              /\ Len(responses) = Len(issued) - 1
              /\ Len(enhanced_results) = r[2] - 1
    /\ \A i \in 1..Len(enhanced_results) :
          Searching => enhanced_results[i].url = results[i].url
    /\ (Searching /\ pc = "returned" /\ envelope[1].status = "success") =>
          /\ Len(envelope[1].results) = Len(results)
          /\ \A i \in 1..Len(results) : envelope[1].results[i].url = results[i].url

\* A search returned after fetching two different urls, one after the other.
C9_Witness ==
    /\ Searching
    /\ pc = "returned"
    /\ issued = <<1, 2>>
    /\ Len(responses) = 2
    /\ results[1].url # results[2].url

\* C10: the status of an entry is 'not_attempted', 'success' or starts with
\* 'error: '; it is 'not_attempted' exactly when the result has no url or an
\* empty one, and then no fetch was issued for it; the content is non-null
\* exactly when the status is 'success'.
C10_StatusContentConsistent ==
    LET Consistent(entries) ==
            \A i \in 1..Len(entries) :
                LET st == entries[i].content_extraction_status IN
                /\ st = <<"not_attempted">> \/ st = <<"success">> \/ IsError(st)
                /\ st = <<"not_attempted">> <=> ~HasUrl(results[i])
                /\ ~HasUrl(results[i]) => \A k \in 1..Len(issued) : issued[k] # i
                /\ entries[i].content # None <=> st = <<"success">>
    IN Searching =>
          /\ Consistent(enhanced_results)
          /\ (pc = "returned" /\ envelope[1].status = "success") =>
                Consistent(envelope[1].results)

\* A success envelope with an entry of an empty url left unfetched and an
\* entry fetched with success.
C10_Witness ==
    /\ Searching
    /\ pc = "returned"
    /\ envelope[1].status = "success"
    /\ \E i, j \in 1..Len(envelope[1].results) :
          /\ results[i].url = Some("")
          /\ envelope[1].results[i].content_extraction_status = <<"not_attempted">>
          /\ envelope[1].results[j].content_extraction_status = <<"success">>
          /\ envelope[1].results[j].content # None
====
